---- MODULE Spec2Model ----
(***************************************************************************)
(* Model of the stream filters of std_stream_extensions:                   *)
(*   - fmt::basic_fmtstreambuf of include/code_fmt_stream.h, the           *)
(*     indentation filter that emits directly to the next buffer           *)
(*     (kind "direct");                                                    *)
(*   - exp::basic_filter_streambuf, the buffering chain filter             *)
(*     (kind "base");                                                      *)
(*   - fmt::basic_fmtstreambuf layered on the chain filter (kind "chain"). *)
(* The next buffer (the sink) is external: it is modelled by the bytes it  *)
(* has accepted and by the number of bytes it accepts in each call.        *)
(***************************************************************************)
EXTENDS Integers, Sequences, FiniteSets, TLC

VARIABLES
    phase,              \* "none", "live", "destroyed", "crashed"
    kind,               \* which class was constructed
    next,               \* the next buffer: "null" or "sink"
    at_start_of_line,
    indent_level,
    indent_increment,
    pending_indent,
    obuf,               \* the output buffer of the chain filter
    pptr,               \* pptr() - obuf
    badbit,             \* stream state of the owning basic_fmtstream
    out,                \* the bytes the sink has accepted
    sink_k,             \* the most bytes the sink accepts in one call
    todo,               \* bytes the caller still has to get consumed
    written,            \* bytes reported as consumed so far
    ref,                \* the same filter fed the same input, with a sink
                        \* that accepts everything
    pre,                \* the filter as it was when the current run began
    tries,              \* calls made so far for the current run
    flushes,            \* flush calls made so far
    last,               \* the last call made on the filter and its result
    nest,               \* the run of indent() calls and the undent() calls
                        \* that followed it, and the filter as the run began
    ibuf,               \* the input buffer of the chain filter
    gptr,               \* gptr() - ibuf
    egptr,              \* egptr() - ibuf
    upstream,           \* bytes the next buffer has still to deliver
    delivered,          \* bytes the next buffer has delivered to the filter
    got,                \* bytes the consumer has read from the filter
    rlast               \* the last read made on the filter and its result

vars == <<phase, kind, next, at_start_of_line, indent_level,
          indent_increment, pending_indent, obuf, pptr, badbit, out,
          sink_k, todo, written, ref, pre, tries, flushes, last, nest,
          ibuf, gptr, egptr, upstream, delivered, got, rlast>>

\* The read side of the filter and of the buffer it reads from.
readvars == <<ibuf, gptr, egptr, upstream, delivered, got, rlast>>

(***************************************************************************)
(* Bounds of the model.                                                    *)
(***************************************************************************)
MaxRun == 2             \* longest run handed to one write
MaxIn == 3              \* most bytes written to one filter
MaxLevel == 2           \* most indent() calls in a row
MaxPlan == 2            \* sink calls of one operation that may fall short
MaxFlush == 1
MaxTries == 2           \* calls the caller makes for one run before giving up
MaxK == 2               \* largest per-call limit of a slow sink
MaxScenario == 9        \* most bytes inserted by the manipulator scenario
MaxDemo == 34           \* most bytes inserted by the two-block program
WriteBufferSize == 2    \* capacity of obuf (64 and 4096 in the source)
ReadBufferSize == 2     \* read capacity of ibuf (8 and 4096 in the source)

(***************************************************************************)
(* Program constants.                                                      *)
(***************************************************************************)
EndOfLine == 10
Indent == 15
Undent == 14
Space == 32
Nul == 0
spaces_count == 17
DefaultIncrement == 4
Eof == -1
Putback == 8

Min(a, b) == IF a < b THEN a ELSE b

\* static char_type spaces[] = "                ": sixteen spaces and the
\* terminating zero that sizeof counts.
spaces == [i \in 1..spaces_count |-> IF i < spaces_count THEN Space ELSE Nul]

\* A faulty isspace that knows blanks only.
isspace_blank_only(c) == c \in {Space, 9}

\* std::isspace in the default locale, on the bytes of the model.
isspace(c) == c \in {Space, EndOfLine, 9, 11, 12, 13}

Letter == 65
OpenBrace == 123
CloseBrace == 125
Byte == {EndOfLine, Indent, Undent, Space, Letter}
Increments == {1, DefaultIncrement, 9}

\* Larger than any run offered to the sink: the sink takes all of it.
MaxOut == MaxIn * (1 + (MaxLevel + MaxIn) * 9) + MaxScenario * 4
NoCap == MaxOut + spaces_count
Caps == {Eof, 0, 1, NoCap}

SeqsUpTo(S, n) == UNION {[1..m -> S] : m \in 0..n}
Runs == SeqsUpTo(Byte, MaxRun) \ {<<>>}
Plans == SeqsUpTo(Caps, MaxPlan)
\* The pass-through filter makes one sink call in each flush.
OneCallPlans == SeqsUpTo(Caps, 1)
BackpressurePlans == SeqsUpTo(Caps \ {Eof}, MaxPlan)

IsPrefix(a, b) == Len(a) <= Len(b) /\ a = SubSeq(b, 1, Len(a))
Drop(s, n) == SubSeq(s, n + 1, Len(s))

\* The model keeps the first bytes the sink accepts, up to a window that is
\* longer than any output the bounded inputs call for.
Clip(s, window) == SubSeq(s, 1, Min(Len(s), window))

Uninit == -2            \* an obuf element that was never assigned

(***************************************************************************)
(* The filter and the sink as one record, threaded through the handlers.   *)
(***************************************************************************)
Cur(plan) ==
    [next |-> next, asol |-> at_start_of_line, level |-> indent_level,
     inc |-> indent_increment, pend |-> pending_indent,
     obuf |-> obuf, pptr |-> pptr, out |-> out, k |-> sink_k,
     plan |-> plan, window |-> MaxOut, failed |-> FALSE, refused |-> FALSE,
     crashed |-> FALSE, looped |-> FALSE,
     exposed |-> FALSE, offered |-> 0, m |-> 0, n |-> 0, seen |-> 0,
     ret |-> 0]

\* Bind(v, F) is F(v) with v evaluated once, as a statement of the program
\* evaluates its operand once.
Bind(v, F(_)) == CHOOSE y \in {F(x) : x \in {v}} : TRUE

\* next->sputn(bytes, n): the sink accepts as many bytes as this call's cap
\* allows, or reports a failure.  A null next is dereferenced here.
sputn(s, bytes) ==
    LET cap == IF s.plan = <<>> THEN s.k ELSE Head(s.plan)
        rest == IF s.plan = <<>> THEN <<>> ELSE Tail(s.plan)
        n == Min(Len(bytes), cap)
    IN  IF s.next = "null"
        THEN [s EXCEPT !.crashed = TRUE, !.ret = Eof]
        ELSE IF cap < 0
        THEN [s EXCEPT !.plan = rest, !.failed = TRUE, !.ret = Eof,
                       !.offered = @ + Len(bytes)]
        ELSE [s EXCEPT !.plan = rest,
                       !.out = Clip(@ \o SubSeq(bytes, 1, n), s.window),
                       !.refused = @ \/ n < Len(bytes),
                       !.offered = @ + Len(bytes), !.ret = n]

\* next->sputc(c): the character, or eof when the sink takes nothing.
sputc(s, c) ==
    Bind(sputn(s, <<c>>),
         LAMBDA r : [r EXCEPT !.ret = IF r.ret = 1 THEN c ELSE Eof])

(***************************************************************************)
(* fmt::basic_fmtstreambuf of include/code_fmt_stream.h.                   *)
(***************************************************************************)
\* A faulty indent that steps by the increment: C11 must tell it from indent.
indent_by_increment(s) == [s EXCEPT !.level = @ + s.inc]

\* A faulty indent that also starts the line anew: C20 must tell it from
\* indent.
indent_resets_line(s) == [s EXCEPT !.level = @ + 1, !.asol = TRUE]

indent(s) == [s EXCEPT !.level = @ + 1]

\* A faulty undent that leaves the last level in place: C5 must tell it
\* from undent.
undent_keeps_last_level(s) == [s EXCEPT !.level = IF @ > 1 THEN @ - 1 ELSE @]

\* A faulty undent without the test for level 0.
undent_unguarded(s) == [s EXCEPT !.level = @ - 1]

undent(s) == [s EXCEPT !.level = IF @ # 0 THEN @ - 1 ELSE @]

RECURSIVE do_indentation_loop(_)
do_indentation_loop(s) ==
    IF s.pend > 0
    THEN LET c == Min(s.pend, spaces_count)
         IN  Bind(sputn(s, SubSeq(spaces, 1, c)), LAMBDA r :
               IF r.ret # c
               THEN [r EXCEPT !.ret = r.pend]
               ELSE do_indentation_loop([r EXCEPT !.pend = @ - c]))
    ELSE [s EXCEPT !.ret = 0]

do_indentation(s, indentation_count) ==
    do_indentation_loop([s EXCEPT !.pend = indentation_count])

RECURSIVE xsputn_loop(_, _, _)
xsputn_loop(s0, run, idx) ==
  Bind(IF idx < Len(run) THEN [s0 EXCEPT !.seen = idx + 1] ELSE s0, LAMBDA s :
    IF idx >= Len(run) THEN [s EXCEPT !.ret = Len(run)]
    ELSE LET c == run[idx + 1] IN
      IF c = Indent THEN xsputn_loop(indent(s), run, idx + 1)
      ELSE IF c = Undent THEN xsputn_loop(undent(s), run, idx + 1)
      ELSE IF s.asol /\ isspace(c) THEN xsputn_loop(s, run, idx + 1)
      ELSE Bind(IF s.asol THEN do_indentation(s, s.level * s.inc)
                ELSE [s EXCEPT !.ret = 0], LAMBDA s1 :
             IF s1.ret # 0 THEN [s1 EXCEPT !.ret = idx]
             ELSE Bind(sputn([s1 EXCEPT !.asol = (c = EndOfLine)], <<c>>),
                       LAMBDA s3 :
                    IF s3.ret # 1 THEN [s3 EXCEPT !.ret = idx]
                    ELSE xsputn_loop(s3, run, idx + 1))))

\* A faulty xsputn that does not settle the owed indentation first.
xsputn_skips_pending(s, run) == xsputn_loop(s, run, 0)

xsputn(s, run) ==
    Bind(IF s.pend > 0 THEN do_indentation(s, s.pend)
         ELSE [s EXCEPT !.ret = 0], LAMBDA s1 :
      IF s1.ret # 0 THEN [s1 EXCEPT !.ret = 0]
      ELSE xsputn_loop(s1, run, 0))

(***************************************************************************)
(* exp::basic_filter_streambuf and the fmt::basic_fmtstreambuf built on it.*)
(***************************************************************************)
\* fmt::basic_fmtstreambuf::filter_write of the chained filter.
RECURSIVE indentation_loop(_, _)
indentation_loop(s, ind) ==
    IF ind < s.level * s.inc
    THEN Bind(sputc(s, Space), LAMBDA r :
           IF r.ret = Eof THEN r ELSE indentation_loop(r, ind + 1))
    ELSE [s EXCEPT !.ret = 0]

RECURSIVE fmt_filter_write_loop(_, _, _)
fmt_filter_write_loop(s, run, idx) ==
    IF idx >= Len(run) THEN [s EXCEPT !.ret = Len(run)]
    ELSE LET c == run[idx + 1] IN
      IF c = Indent THEN fmt_filter_write_loop(indent(s), run, idx + 1)
      ELSE IF c = Undent THEN fmt_filter_write_loop(undent(s), run, idx + 1)
      ELSE IF s.asol /\ isspace(c) THEN fmt_filter_write_loop(s, run, idx + 1)
      ELSE Bind(IF s.asol THEN indentation_loop(s, 0)
                ELSE [s EXCEPT !.ret = 0], LAMBDA s1 :
             IF s1.ret = Eof THEN [s1 EXCEPT !.ret = idx]
             ELSE Bind(sputc([s1 EXCEPT !.asol = (c = EndOfLine)], c),
                       LAMBDA s3 :
                    IF s3.ret = Eof THEN [s3 EXCEPT !.ret = idx]
                    ELSE fmt_filter_write_loop(s3, run, idx + 1)))

fmt_filter_write(s, run) == fmt_filter_write_loop(s, run, 0)

\* exp::basic_filter_streambuf::filter_write, the pass-through hook.
base_filter_write(s, run) == sputn(s, run)

\* The virtual call: dyn is the dynamic type of the object at the call.
filter_write(s, dyn, run) ==
    IF dyn = "chain" THEN fmt_filter_write(s, run)
    ELSE base_filter_write(s, run)

\* for (cp = n; cp < sizeof(obuf) - n; ++cp) obuf[cp - n] = obuf[cp];
\* cp counts from 0, the buffer of the model from 1.
RECURSIVE shift_loop(_, _, _)
shift_loop(buf0, n, cp) == Bind(buf0, LAMBDA buf :
    IF cp < WriteBufferSize - n
    THEN shift_loop([buf EXCEPT ![cp - n + 1] = buf[cp + 1]], n, cp + 1)
    ELSE buf)

\* The elements of obuf below the new pptr that were never assigned hold
\* whatever the memory held: fill gives their values.
Expose(buf, upto, fill) ==
    [i \in 1..WriteBufferSize |->
        IF i <= upto /\ buf[i] = Uninit THEN fill[i] ELSE buf[i]]

sync(s0, dyn, fill) == Bind(s0, LAMBDA s :
    LET m == s.pptr IN
    Bind(filter_write([s EXCEPT !.m = m], dyn, SubSeq(s.obuf, 1, m)),
         LAMBDA w :
      LET n == w.ret IN
        IF n < 0 THEN [w EXCEPT !.n = n, !.ret = -1]
        ELSE IF n = m THEN [w EXCEPT !.n = n, !.pptr = 0, !.ret = 0]
        ELSE LET upto == WriteBufferSize - n
             IN  Bind(shift_loop(w.obuf, n, n), LAMBDA moved :
                   [w EXCEPT !.n = n,
                             !.obuf = Expose(moved, upto, fill),
                             !.exposed = @ \/ \E i \in 1..upto :
                                                moved[i] = Uninit,
                             !.pptr = upto,
                             !.ret = 0])))

\* std::basic_streambuf::xsputn as the chain filter inherits it, with
\* exp::basic_filter_streambuf::overflow.  overflow calls xsputn for one
\* character, which calls overflow again while the buffer is still full:
\* when a round changes nothing the recursion never ends.
RECURSIVE overflow(_, _, _, _)
overflow(s, dyn, fill, c) ==
    Bind(sync(s, dyn, fill), LAMBDA s1 :
        IF s1.ret < 0 THEN [s1 EXCEPT !.ret = Eof]
        ELSE IF s1.pptr < WriteBufferSize
        THEN [s1 EXCEPT !.obuf[s1.pptr + 1] = c, !.pptr = @ + 1, !.ret = c]
        ELSE IF s1.out = s.out /\ s1.plan = s.plan /\ s1.asol = s.asol
                /\ s1.level = s.level /\ s1.obuf = s.obuf /\ s1.pptr = s.pptr
        THEN [s1 EXCEPT !.crashed = TRUE, !.looped = ~s1.crashed,
                        !.ret = Eof]
        ELSE [overflow(s1, dyn, fill, c) EXCEPT !.ret = c])

RECURSIVE default_xsputn(_, _, _, _, _)
default_xsputn(s, dyn, fill, run, done) ==
    IF done >= Len(run) THEN [s EXCEPT !.ret = done]
    ELSE IF s.pptr < WriteBufferSize
    THEN LET len == Min(WriteBufferSize - s.pptr, Len(run) - done)
         IN  default_xsputn(
                 [s EXCEPT !.obuf = [i \in 1..WriteBufferSize |->
                                       IF i > s.pptr /\ i <= s.pptr + len
                                       THEN run[done + i - s.pptr]
                                       ELSE s.obuf[i]],
                           !.pptr = @ + len],
                 dyn, fill, run, done + len)
    ELSE Bind(overflow(s, dyn, fill, run[done + 1]), LAMBDA r :
           IF r.crashed \/ r.ret = Eof THEN [r EXCEPT !.ret = done]
           ELSE default_xsputn(r, dyn, fill, run, done + 1))

\* sputn on the filter: the virtual xsputn of the constructed class.
filter_sputn(s, dyn, fill, run) ==
    IF dyn = "direct" THEN xsputn(s, run)
    ELSE default_xsputn(s, dyn, fill, run, 0)

(***************************************************************************)
(* The state machine.                                                      *)
(***************************************************************************)
NoCall == [op |-> "none", ret |-> 0, failed |-> FALSE, refused |-> FALSE,
           offered |-> 0, m |-> 0, n |-> 0, before |-> <<>>, owed |-> 0,
           had |-> 0, level |-> 0, asol |-> TRUE, seen |-> 0,
           looped |-> FALSE, tick |-> FALSE]

NoRead == [op |-> "none", ret |-> 0, left |-> <<>>]

NoNest == [on |-> FALSE, start |-> 0, ups |-> 0, downs |-> 0,
           asol |-> TRUE, pend |-> 0, out |-> <<>>]

Fresh == [asol |-> TRUE, level |-> 0, inc |-> DefaultIncrement,
          out |-> <<>>, run |-> <<>>]

Init ==
    /\ phase = "none"
    /\ kind = "none"
    /\ next = "null"
    /\ at_start_of_line = TRUE
    /\ indent_level = 0
    /\ indent_increment = DefaultIncrement
    /\ pending_indent = 0
    /\ obuf = [i \in 1..WriteBufferSize |-> Uninit]
    /\ pptr = 0
    /\ badbit = FALSE
    /\ out = <<>>
    /\ sink_k = NoCap
    /\ todo = <<>>
    /\ written = <<>>
    /\ ref = [asol |-> TRUE, level |-> 0, out |-> <<>>]
    /\ pre = Fresh
    /\ tries = 0
    /\ flushes = 0
    /\ last = NoCall
    /\ nest = NoNest
    /\ ibuf = [i \in 1..(ReadBufferSize + Putback) |-> Uninit]
    /\ gptr = 0
    /\ egptr = 0
    /\ upstream = <<>>
    /\ delivered = <<>>
    /\ got = <<>>
    /\ rlast = NoRead

\* The values memory may hold where obuf was never assigned.
Fills == [1..WriteBufferSize -> Byte]
DefaultFill == [i \in 1..WriteBufferSize |-> Letter]

\* The outcomes of a handler: one, unless it came to read unassigned memory.
Outcomes(Op(_)) ==
    Bind(Op(DefaultFill), LAMBDA r0 :
      IF r0.exposed THEN {Op(f) : f \in Fills} ELSE {r0})

\* The buffered bytes, as the sequence a flush offers.
Buffered == SubSeq(obuf, 1, pptr)

Commit(r) ==
    /\ at_start_of_line' = r.asol
    /\ indent_level' = r.level
    /\ pending_indent' = r.pend
    /\ obuf' = r.obuf
    /\ pptr' = r.pptr
    /\ out' = r.out

Called(name, r) ==
    [op |-> name, ret |-> r.ret, failed |-> r.failed, refused |-> r.refused,
     offered |-> r.offered, m |-> r.m, n |-> r.n, before |-> Buffered,
     owed |-> pending_indent, had |-> Len(out), level |-> indent_level,
     asol |-> at_start_of_line, seen |-> r.seen, looped |-> r.looped,
     tick |-> FALSE]

\* The constructors: every member takes its default initialiser, next is
\* stored as given, and the chain filter sets up its empty put area.
Construct(kd, nxt, sk) ==
    /\ phase = "none"
    /\ phase' = "live"
    /\ kind' = kd
    /\ next' = nxt
    /\ sink_k' = sk
    /\ at_start_of_line' = TRUE
    /\ indent_level' = 0
    /\ indent_increment' = DefaultIncrement
    /\ pending_indent' = 0
    /\ pptr' = 0
    /\ nest' = NoNest
    /\ gptr' = IF kd = "direct" THEN 0 ELSE Putback
    /\ egptr' = IF kd = "direct" THEN 0 ELSE Putback
    /\ UNCHANGED <<ibuf, upstream, delivered, got, rlast>>
    /\ UNCHANGED <<obuf, badbit, out, todo, written, ref, pre, tries,
                   flushes, last>>

ConstructDirect == \E nxt \in {"null", "sink"} : Construct("direct", nxt, NoCap)

ConstructChain == \E nxt \in {"null", "sink"} : Construct("chain", nxt, NoCap)

ConstructBase == \E nxt \in {"null", "sink"} : Construct("base", nxt, NoCap)

\* A sink that accepts at most sk bytes in each call.
ConstructSlow == \E sk \in 1..MaxK : Construct("direct", "sink", sk)

Idle == phase = "live" /\ todo = <<>>

\* indent_increment is a public data member.
SetIncrement ==
    /\ Idle
    /\ kind # "base"
    /\ written = <<>>
    /\ \E i \in Increments \ {indent_increment} : indent_increment' = i
    /\ nest' = NoNest
    /\ UNCHANGED <<readvars, phase, kind, next, at_start_of_line, indent_level,
                   pending_indent, obuf, pptr, badbit, out, sink_k, todo,
                   written, ref, pre, tries, flushes, last>>

CallIndent ==
    /\ Idle
    /\ kind # "base"
    /\ indent_level < MaxLevel
    /\ indent_level' = indent(Cur(<<>>)).level
    /\ ref' = [ref EXCEPT !.level = @ + 1]
    /\ last' = [NoCall EXCEPT !.op = "indent"]
    /\ nest' = IF nest.on /\ nest.downs = 0
               THEN [nest EXCEPT !.ups = @ + 1]
               ELSE [on |-> TRUE, start |-> indent_level, ups |-> 1,
                     downs |-> 0, asol |-> at_start_of_line,
                     pend |-> pending_indent, out |-> out]
    /\ UNCHANGED <<readvars, phase, kind, next, at_start_of_line, indent_increment,
                   pending_indent, obuf, pptr, badbit, out, sink_k, todo,
                   written, pre, tries, flushes>>

CallUndent ==
    /\ Idle
    /\ kind # "base"
    /\ indent_level' = undent(Cur(<<>>)).level
    /\ ref' = [ref EXCEPT !.level = IF @ # 0 THEN @ - 1 ELSE @]
    /\ last' = [NoCall EXCEPT !.op = "undent"]
    /\ nest' = IF nest.on /\ nest.downs < nest.ups
               THEN [nest EXCEPT !.downs = @ + 1]
               ELSE NoNest
    /\ UNCHANGED <<readvars, phase, kind, next, at_start_of_line, indent_increment,
                   pending_indent, obuf, pptr, badbit, out, sink_k, todo,
                   written, pre, tries, flushes>>

\* What the filter delivers for run when its sink accepts everything.
Twin(run) ==
    LET t == [Cur(<<>>) EXCEPT !.next = "sink", !.asol = ref.asol,
                               !.level = ref.level, !.out = ref.out,
                               !.pend = 0, !.k = NoCap]
        r == IF kind = "direct" THEN xsputn(t, run)
             ELSE filter_write(t, kind, run)
    IN  [asol |-> r.asol, level |-> r.level, out |-> r.out]

\* The caller takes up a new run.
Submit ==
    /\ Idle
    /\ \E run \in Runs :
          /\ Len(written) + Len(run) <= MaxIn
          /\ todo' = run
          /\ ref' = Twin(run)
          /\ pre' = [asol |-> at_start_of_line, level |-> indent_level,
                     inc |-> indent_increment, out |-> out, run |-> run]
          /\ tries' = 0
    /\ nest' = NoNest
    /\ UNCHANGED <<readvars, phase, kind, next, at_start_of_line, indent_level,
                   indent_increment, pending_indent, obuf, pptr, badbit,
                   out, sink_k, written, flushes, last>>

\* sputn(todo) on the filter; the caller keeps what was not consumed.
WriteWith(plans, r_tick, window) ==
    /\ phase = "live"
    /\ todo # <<>>
    /\ tries' = Min(tries + 1, MaxTries)
    /\ nest' = NoNest
    /\ \E plan \in plans :
       \E r \in Outcomes(LAMBDA f :
                 filter_sputn([Cur(plan) EXCEPT !.window = window],
                              kind, f, todo)) :
          /\ Commit(r)
          /\ phase' = IF r.crashed THEN "crashed" ELSE phase
          /\ todo' = Drop(todo, r.ret)
          /\ written' = written \o SubSeq(todo, 1, r.ret)
          /\ last' = [Called("write", r) EXCEPT !.offered = Len(todo),
                                                !.tick = r_tick]
    /\ UNCHANGED <<readvars, kind, next, indent_increment, badbit, sink_k, ref, pre,
                   flushes>>

\* A caller that gives up after MaxTries calls for one run.  The direct
\* filter tells a failing sink from a slow one nowhere (it compares the
\* count with what it offered), so its sink is only ever slow.
Write ==
    /\ tries < MaxTries
    /\ WriteWith(IF kind = "direct" THEN BackpressurePlans ELSE Plans,
                 FALSE, MaxOut)

\* A caller that never gives up, against the slow sink, which behaves
\* alike in every call.  Every call is a step: tick tells two calls apart.
\* The sink's record is kept one byte past what the run calls for.
WriteSlow == WriteWith({<<>>}, ~last.tick, Len(ref.out) + 1)

\* ostream::flush on the chain filters: pubsync, and badbit when it returns
\* -1.  (The direct filter inherits std::basic_streambuf::sync, which does
\* nothing and returns 0.)
Flush ==
    /\ Idle
    /\ kind # "direct"
    /\ flushes < MaxFlush
    /\ flushes' = flushes + 1
    /\ nest' = NoNest
    /\ \E plan \in IF kind = "base" THEN OneCallPlans ELSE Plans :
       \E r \in Outcomes(LAMBDA f : sync(Cur(plan), kind, f)) :
          /\ Commit(r)
          /\ phase' = IF r.crashed THEN "crashed" ELSE phase
          /\ badbit' = (badbit \/ r.ret = -1)
          /\ last' = Called("flush", r)
    /\ UNCHANGED <<readvars, kind, next, indent_increment, sink_k, todo, written,
                   ref, pre, tries>>

\* The destructors, in the order they run.
\*   direct: ~basic_fmtstream deletes the filter, which has no destructor.
\*   chain:  ~basic_fmtstream flushes, then ~basic_fmtstreambuf calls sync,
\*           then ~basic_filter_streambuf calls sync, by then with the
\*           pass-through filter_write of the base class.
\*   base:   ~basic_filter_streambuf calls sync.
destroy(s, kd, fill) ==
    IF kd = "direct" THEN [s EXCEPT !.ret = 0]
    ELSE IF kd = "base" THEN sync(s, "base", fill)
    ELSE Bind(sync(s, "chain", fill), LAMBDA s1 :
           Bind(sync(sync(s1, "chain", fill), "base", fill), LAMBDA s3 :
             [s3 EXCEPT !.ret = s1.ret, !.m = s.pptr]))

\* The chain filter's teardown makes three flushes.
TeardownPlans == SeqsUpTo(Caps, MaxPlan + 1)

Teardown ==
    /\ phase = "live"
    /\ nest' = NoNest
    /\ \E plan \in IF kind = "direct" THEN {<<>>}
                    ELSE IF kind = "base" THEN OneCallPlans
                    ELSE TeardownPlans :
       \E r \in Outcomes(LAMBDA f : destroy(Cur(plan), kind, f)) :
          /\ Commit(r)
          /\ phase' = IF r.crashed THEN "crashed" ELSE "destroyed"
          /\ badbit' = (badbit \/ (kind = "chain" /\ r.ret = -1))
          /\ last' = Called("teardown", r)
    /\ UNCHANGED <<readvars, kind, next, indent_increment, sink_k, todo, written,
                   ref, pre, tries, flushes>>

\* The direct filter and a caller that retries what was not consumed.
Next ==
    \/ ConstructDirect
    \/ SetIncrement
    \/ CallIndent
    \/ CallUndent
    \/ Submit
    \/ Write
    \/ Teardown

Spec == Init /\ [][Next]_vars

\* The same filter against a sink that accepts at most sink_k bytes in
\* each call, and a caller that keeps retrying.
NextLive ==
    \/ ConstructSlow
    \/ SetIncrement
    \/ CallIndent
    \/ CallUndent
    \/ Submit
    \/ WriteSlow

LiveSpec == Init /\ [][NextLive]_vars /\ WF_vars(WriteSlow)

\* The chain filter, alone and under the indentation filter (whose level
\* is moved here by the marks in the stream).
NextChain ==
    \/ ConstructChain
    \/ ConstructBase
    \/ Submit
    \/ Write
    \/ Flush
    \/ Teardown

ChainSpec == Init /\ [][NextChain]_vars

\* The chain filters against a sink that behaves alike in every call: it
\* accepts at most sink_k bytes, which may be none at all.
ConstructSteady ==
    \E kd \in {"base", "chain"} : \E sk \in 0..MaxK :
        Construct(kd, "sink", sk)

WriteSteady ==
    /\ tries < MaxTries
    /\ WriteWith({<<>>}, FALSE, MaxOut)

NextSteady ==
    \/ ConstructSteady
    \/ Submit
    \/ WriteSteady

SteadySpec == Init /\ [][NextSteady]_vars

(***************************************************************************)
(* The read side of the chain filter: the consumer reads one byte at a     *)
(* time from the filter, which reads ahead from the next buffer.           *)
(***************************************************************************)
\* sizeof(char_type *) on the builds the program has: 32-bit and 64-bit.
PointerSizes == {4, 8}

CurRead ==
    [next |-> next, ibuf |-> ibuf, gptr |-> gptr, egptr |-> egptr,
     upstream |-> upstream, delivered |-> delivered, crashed |-> FALSE,
     ret |-> 0]

\* next->sgetn(ibuf + at, count): the next buffer copies what it has, at
\* most count bytes.  A null next is dereferenced here, and a copy that ends
\* past the array is a write outside it.
sgetn(r0, at, count) == Bind(r0, LAMBDA r :
    LET n == Min(IF count < 0 THEN 0 ELSE count, Len(r.upstream))
    IN  IF r.next = "null" \/ (n > 0 /\ at + n > Len(r.ibuf))
        THEN [r EXCEPT !.crashed = TRUE, !.ret = Eof]
        ELSE [r EXCEPT
                !.ibuf = [i \in DOMAIN r.ibuf |->
                            IF at < i /\ i <= at + n
                            THEN r.upstream[i - at] ELSE r.ibuf[i]],
                !.upstream = Drop(@, n),
                !.delivered = @ \o SubSeq(r.upstream, 1, n),
                !.ret = n])

\* basic_filter_streambuf::filter_read(ibuf, count): inside, ibuf is the
\* parameter, a pointer psize bytes wide that points at ibuf + param.
base_filter_read(r, param, count, psize) ==
    sgetn(r, param + Putback, psize - Putback)

\* basic_fmtstreambuf::filter_read of the chained filter.
fmt_filter_read(r, param, count) == [r EXCEPT !.ret = count]

filter_read(r, kd, param, count, psize) ==
    IF kd = "chain" THEN fmt_filter_read(r, param, count)
    ELSE base_filter_read(r, param, count, psize)

underflow(r, kd, psize) ==
    Bind(filter_read(r, kd, Putback, Len(r.ibuf) - Putback, psize),
         LAMBDA a :
           IF a.crashed THEN a
           ELSE IF a.ret < 0 THEN [a EXCEPT !.ret = Eof]
           ELSE IF a.ret # 0
           THEN [a EXCEPT !.gptr = Putback, !.egptr = Putback + a.ret,
                          !.ret = a.ibuf[Putback + 1]]
           ELSE [a EXCEPT !.gptr = Putback, !.egptr = Putback,
                          !.ret = Eof])

\* std::basic_streambuf::sbumpc: the byte at gptr(), or uflow() when the
\* get area is exhausted; uflow() is underflow() and one step forward.
sbumpc(r, kd, psize) ==
    IF r.gptr < r.egptr
    THEN [r EXCEPT !.ret = r.ibuf[r.gptr + 1], !.gptr = @ + 1]
    ELSE Bind(underflow(r, kd, psize),
              LAMBDA u : IF u.crashed \/ u.ret = Eof THEN u
                         ELSE [u EXCEPT !.gptr = @ + 1])

\* The next buffer gets bytes to deliver.
Supply ==
    /\ phase = "live"
    /\ kind \in {"base", "chain"}
    /\ \E run \in Runs :
          /\ Len(upstream) + Len(delivered) + Len(run) <= MaxIn
          /\ upstream' = upstream \o run
    /\ UNCHANGED <<phase, kind, next, at_start_of_line, indent_level,
                   indent_increment, pending_indent, obuf, pptr, badbit,
                   out, sink_k, todo, written, ref, pre, tries, flushes,
                   last, nest, ibuf, gptr, egptr, delivered, got, rlast>>

\* The consumer reads one byte.  A byte of ibuf that was never assigned
\* reads as any value.
Read ==
    /\ phase = "live"
    /\ kind \in {"base", "chain"}
    /\ Len(got) < MaxIn
    /\ \E psize \in PointerSizes :
         LET r == sbumpc(CurRead, kind, psize)
         IN  /\ ibuf' = r.ibuf
             /\ gptr' = r.gptr
             /\ egptr' = r.egptr
             /\ upstream' = r.upstream
             /\ delivered' = r.delivered
             /\ phase' = IF r.crashed THEN "crashed" ELSE phase
             /\ \E c \in (IF r.ret = Uninit THEN Byte ELSE {r.ret}) :
                   /\ got' = IF c = Eof THEN got ELSE Append(got, c)
                   /\ rlast' = [op |-> "read", ret |-> c,
                                left |-> upstream]
    /\ UNCHANGED <<kind, next, at_start_of_line, indent_level,
                   indent_increment, pending_indent, obuf, pptr, badbit,
                   out, sink_k, todo, written, ref, pre, tries, flushes,
                   last, nest>>

NextRead ==
    \/ ConstructChain
    \/ ConstructBase
    \/ Supply
    \/ Read

ReadSpec == Init /\ [][NextRead]_vars

(***************************************************************************)
(* The manipulators, inserted through a stream whose sink accepts          *)
(* everything.                                                             *)
(***************************************************************************)
basic_begin(open_brace) == <<open_brace, Indent, EndOfLine>>

basic_end(close_brace) == <<Undent, EndOfLine, close_brace, EndOfLine>>

basic_sft_end(close_brace) == <<Undent, EndOfLine, close_brace>>

Texts == {<<Letter>>, <<Letter + 1>>}

ConstructStream ==
    \E kd \in {"direct", "chain"} : Construct(kd, "sink", NoCap)

\* ostream << str: one sputn, and badbit when it comes back short.
InsertUpTo(str, limit) ==
    /\ Idle
    /\ Len(written) + Len(str) <= limit
    /\ \E r \in Outcomes(LAMBDA f : filter_sputn(Cur(<<>>), kind, f, str)) :
          /\ Commit(r)
          /\ phase' = IF r.crashed THEN "crashed" ELSE phase
          /\ written' = written \o SubSeq(str, 1, r.ret)
          /\ badbit' = (badbit \/ r.ret # Len(str))
          /\ last' = [Called("write", r) EXCEPT !.offered = Len(str)]
    /\ ref' = Twin(str)
    /\ nest' = NoNest
    /\ UNCHANGED <<readvars, kind, next, indent_increment, sink_k, todo, pre, tries,
                   flushes>>

Insert(str) == InsertUpTo(str, MaxScenario)

InsertText == \E t \in Texts : Insert(t)

InsertBegin == Insert(basic_begin(OpenBrace))

InsertEnd == Insert(basic_end(CloseBrace))

InsertSftEnd == Insert(basic_sft_end(CloseBrace))

\* flush with nothing refused.
FlushAll ==
    /\ Idle
    /\ kind = "chain"
    /\ pptr > 0
    /\ nest' = NoNest
    /\ \E r \in Outcomes(LAMBDA f : sync(Cur(<<>>), kind, f)) :
          /\ Commit(r)
          /\ phase' = IF r.crashed THEN "crashed" ELSE phase
          /\ badbit' = (badbit \/ r.ret = -1)
          /\ last' = Called("flush", r)
    /\ UNCHANGED <<readvars, kind, next, indent_increment, sink_k, todo, written,
                   ref, pre, tries, flushes>>

NextScenario ==
    \/ ConstructStream
    \/ InsertText
    \/ InsertBegin
    \/ InsertEnd
    \/ InsertSftEnd
    \/ FlushAll

ScenarioSpec == Init /\ [][NextScenario]_vars

(***************************************************************************)
(* The demonstration programs: text and blocks, nested at most MaxNesting  *)
(* deep, MaxBlocks blocks at the top level, inserted into one stream.      *)
(***************************************************************************)
MaxNesting == 2
MaxBlocks == 2

\* Blocks open after the first i bytes of seq.
Depth(seq, i) ==
    Cardinality({j \in 1..i : seq[j] = Indent})
    - Cardinality({j \in 1..i : seq[j] = Undent})

\* The places in seq where a top-level block is closed.
Closes(seq) == {i \in 1..Len(seq) : seq[i] = Undent /\ Depth(seq, i) = 0}

DemoText ==
    /\ Cardinality(Closes(written)) < MaxBlocks
    /\ IF written = <<>> THEN TRUE ELSE written[Len(written)] = EndOfLine
    /\ InsertUpTo(<<Letter>>, MaxDemo)

DemoBegin ==
    /\ Cardinality(Closes(written)) < MaxBlocks
    /\ Depth(written, Len(written)) < MaxNesting
    /\ InsertUpTo(basic_begin(OpenBrace), MaxDemo)

DemoEnd ==
    /\ Depth(written, Len(written)) > 0
    /\ InsertUpTo(basic_end(CloseBrace), MaxDemo)

NextDemo ==
    \/ ConstructStream
    \/ DemoText
    \/ DemoBegin
    \/ DemoEnd
    \/ FlushAll

DemoSpec == Init /\ [][NextDemo]_vars

(***************************************************************************)
(* The claims.                                                             *)
(***************************************************************************)
Marks == {Indent, Undent}

\* C1: against a sink that accepts at most k >= 1 bytes per call, a caller
\* that keeps calling write with the bytes not yet consumed eventually has
\* the whole run consumed, and the sink then holds what an always-accepting
\* sink would hold.
C1_EventuallyDelivered ==
    (phase = "live" /\ todo # <<>>) ~> (todo = <<>> /\ out = ref.out)

\* C2: under backpressure the bytes the sink has accepted are always a
\* prefix of what an always-accepting sink receives for the same input.
C2_AcceptedIsPrefix ==
    (phase \in {"live", "destroyed"} /\ next = "sink")
        => IsPrefix(out, ref.out)

\* The output C3 calls for: the leading spaces of every line replaced by
\* pad spaces, every line keeping its EndOfLine.
RECURSIVE Reindented(_, _, _)
Reindented(run, pad, at_start) ==
    IF run = <<>> THEN <<>>
    ELSE LET c == Head(run) IN
      IF at_start /\ c = Space THEN Reindented(Tail(run), pad, TRUE)
      ELSE (IF at_start THEN [i \in 1..pad |-> Space] ELSE <<>>)
           \o <<c>> \o Reindented(Tail(run), pad, c = EndOfLine)

\* C3: a run without marks, begun at the start of a line and written to a
\* sink that accepts everything, comes out with the leading whitespace of
\* every line replaced by indent_level * indent_increment spaces, every
\* line keeping its EndOfLine.
C3_LeadingWhitespaceReplaced ==
    (/\ phase = "live" /\ kind = "direct" /\ next = "sink"
     /\ last.op = "write" /\ todo = <<>> /\ tries = 1
     /\ ~last.refused /\ ~last.failed
     /\ pre.asol
     /\ \A i \in 1..Len(pre.run) : pre.run[i] \notin Marks)
        => out = pre.out \o Reindented(pre.run, pre.level * pre.inc, TRUE)

\* C4: no IndentMark or UndentMark byte ever reaches the sink.
C4_NoMarkInOutput ==
    kind \in {"direct", "chain"} => \A i \in 1..Len(out) : out[i] \notin Marks

\* A mark the caller wrote has reached the sink as it was written.
C4_MarkForwarded ==
    /\ kind = "chain" /\ phase = "destroyed" /\ next = "sink"
    /\ out = written
    /\ \E i \in 1..Len(out) : out[i] \in Marks

Scenario5 == <<Letter, OpenBrace, Indent, EndOfLine,
               Letter + 1, Undent, EndOfLine, CloseBrace, EndOfLine>>

Expected5 == <<Letter, OpenBrace, EndOfLine, Space, Space, Space, Space,
               Letter + 1, EndOfLine, CloseBrace, EndOfLine>>

Delivered5 ==
    /\ phase = "live"
    /\ written = Scenario5
    /\ indent_increment = DefaultIncrement
    /\ pptr = 0

\* C5: with indent_increment 4, "A", begin('{'), "B", end('}') written to a
\* fresh filter come out as "A{\n    B\n}\n", and indent_level is 0 again.
C5_BlockScenario == Delivered5 => (out = Expected5 /\ indent_level = 0)

C5_Witness == Delivered5 /\ kind = "direct" /\ out = Expected5

\* C6: after a flush that offered m bytes of which the sink accepted n < m,
\* the buffer holds the m - n unaccepted bytes, in order, and nothing else;
\* what the sink received followed by what is buffered is what was written.
C6_CarryOver ==
    (phase = "live" /\ kind = "base" /\ next = "sink")
        => /\ out \o Buffered = written
           /\ (last.op = "flush" /\ last.n >= 0 /\ last.n < last.m)
                 => Buffered = SubSeq(last.before, last.n + 1, last.m)

\* C7: a call during which the sink reported a failure returns a failure:
\* flush returns -1, write returns short of what it was offered.
C7_SinkFailureReturned ==
    (phase = "live" /\ last.failed)
        => /\ last.op = "flush" => last.ret = -1
           /\ last.op = "write" => last.ret < last.offered

\* C8: once the filter is destroyed with a sink that accepted whatever the
\* teardown offered, no buffered byte and no owed indentation is left.
C8_TeardownDelivers ==
    (phase = "destroyed" /\ next = "sink" /\ ~last.refused /\ ~last.failed)
        => (pptr = 0 /\ pending_indent = 0)

\* C9: a teardown that leaves buffered or owed bytes behind reports a flush
\* failure to the owner.
C9_LossReported ==
    (phase = "destroyed" /\ next = "sink" /\ (pptr > 0 \/ pending_indent > 0))
        => badbit

\* C10: no filter exists that is bound to an absent sink.
C10_NoFilterOnNullSink == phase # "none" => next # "null"

\* C11: n calls of indent() followed by n calls of undent() leave
\* indent_level at the value it had before them, and leave at_start_of_line,
\* pending_indent and the output as they were.
C11_IndentUndentRestores ==
    (nest.on /\ nest.downs = nest.ups)
        => /\ indent_level = nest.start
           /\ at_start_of_line = nest.asol
           /\ pending_indent = nest.pend
           /\ out = nest.out

C11_Witness ==
    /\ nest.on /\ nest.ups = MaxLevel /\ nest.downs = nest.ups
    /\ indent_level = nest.start

\* A first write call that consumed a whole run of UndentMark bytes, begun at
\* level 0.
UndentMarksAtLevel0 ==
    /\ kind = "direct" /\ last.op = "write" /\ todo = <<>> /\ tries = 1
    /\ pre.level = 0
    /\ \A i \in 1..Len(pre.run) : pre.run[i] = Undent

\* C12: indent_level is never negative; undent() at level 0, called directly
\* or triggered by an UndentMark byte, leaves the level at 0 and is no error:
\* the mark is reported as consumed and the filter stays usable.
C12_LevelNeverNegative ==
    /\ [](indent_level >= 0)
    /\ [](UndentMarksAtLevel0
            => /\ indent_level = 0
               /\ phase = "live"
               /\ last.ret = Len(pre.run))
    /\ [][(last'.op = "undent" /\ indent_level = 0)
            => (indent_level' = 0 /\ phase' = phase)]_vars

C12_Witness ==
    UndentMarksAtLevel0 /\ pre.run = <<Undent, Undent>> /\ indent_level = 0

\* What a fresh filter of the constructed kind delivers for seq.
RECURSIVE EmitFrom(_, _)
EmitFrom(t, seq) ==
    IF Len(seq) <= 1
    THEN IF kind = "direct" THEN xsputn(t, seq)
         ELSE filter_write(t, kind, seq)
    ELSE Bind(EmitFrom(t, SubSeq(seq, 1, Len(seq) \div 2)),
              LAMBDA half : EmitFrom(half, Drop(seq, Len(seq) \div 2)))

Emit(seq) ==
    EmitFrom([Cur(<<>>) EXCEPT !.next = "sink", !.asol = TRUE, !.level = 0,
                               !.pend = 0, !.out = <<>>, !.pptr = 0,
                               !.k = NoCap], seq).out

\* Everything inserted so far is whole top-level blocks, and all of it has
\* gone through the filter.
BlocksClosed ==
    /\ phase = "live" /\ pptr = 0
    /\ Closes(written) # {}
    /\ Len(written) = 3 + CHOOSE i \in Closes(written) :
                              \A j \in Closes(written) : j <= i

\* Where the first top-level block ends: its closing brace and EndOfLine
\* follow the UndentMark.
FirstBlockEnd ==
    3 + CHOOSE i \in Closes(written) : \A j \in Closes(written) : i <= j

Demo13 == <<Letter>> \o basic_begin(OpenBrace) \o <<Letter>>
          \o basic_begin(OpenBrace) \o <<Letter>>
          \o basic_end(CloseBrace) \o basic_end(CloseBrace)

Expected13 ==
    <<Letter, OpenBrace, EndOfLine,
      Space, Space, Space, Space, Letter, OpenBrace, EndOfLine,
      Space, Space, Space, Space, Space, Space, Space, Space, Letter,
      EndOfLine,
      Space, Space, Space, Space, CloseBrace, EndOfLine,
      CloseBrace, EndOfLine>>

\* C13: after a top-level block (with or without blocks nested in it) the
\* level is 0 again and the filter is at the start of a line; a second
\* top-level block comes out as it would from a fresh filter, so two equal
\* blocks come out with equal indentation; the demonstration program run
\* twice delivers its output twice.
C13_TwoBlocks ==
    BlocksClosed
        => /\ indent_level = 0
           /\ at_start_of_line
           /\ Cardinality(Closes(written)) = 2
                => out = Emit(SubSeq(written, 1, FirstBlockEnd))
                         \o Emit(Drop(written, FirstBlockEnd))
           /\ written = Demo13 \o Demo13 => out = Expected13 \o Expected13

C13_Witness ==
    /\ BlocksClosed /\ kind = "direct"
    /\ written = Demo13 \o Demo13
    /\ out = Expected13 \o Expected13
    /\ indent_level = 0

\* A first write call that the direct filter completed against a sink that
\* accepted everything, with no indentation owed beforehand.
WroteAll ==
    /\ phase = "live" /\ kind = "direct" /\ next = "sink"
    /\ last.op = "write" /\ todo = <<>> /\ tries = 1
    /\ ~last.refused /\ ~last.failed /\ last.owed = 0

\* The filter layered on the chain filter, given the same run in the same
\* state, with a sink that accepts everything and a final flush.
ChainRun ==
    LET t == [Cur(<<>>) EXCEPT !.next = "sink", !.asol = pre.asol,
                               !.level = pre.level, !.inc = pre.inc,
                               !.pend = 0, !.out = pre.out, !.pptr = 0,
                               !.k = NoCap]
    IN  sync(filter_sputn(t, "chain", DefaultFill, pre.run),
             "chain", DefaultFill)

\* C14: for the same input in the same state, with a sink that accepts
\* everything and a final flush, the direct filter and the filter layered on
\* the chain filter deliver the same bytes and end with the same
\* indent_level and at_start_of_line.
C14_FiltersAgree ==
    WroteAll
        => /\ out = ChainRun.out
           /\ indent_level = ChainRun.level
           /\ at_start_of_line = ChainRun.asol

\* The number of Space bytes that end s.
RECURSIVE TrailingSpaces(_)
TrailingSpaces(s) ==
    IF s = <<>> \/ s[Len(s)] # Space THEN 0
    ELSE 1 + TrailingSpaces(SubSeq(s, 1, Len(s) - 1))

SpacesOf(n) == [i \in 1..n |-> Space]

\* C15: when the first write of a run stops on the indentation of a byte,
\* that byte is the first one not reported as consumed and pending_indent is
\* the number of spaces the sink has not accepted; once a one-byte run is
\* consumed, whatever the sink refused on the way, the sink has received
\* exactly indent_level * indent_increment spaces before the byte.
C15_PendingIsRemainder ==
    /\ (/\ phase = "live" /\ kind = "direct" /\ next = "sink"
        /\ last.op = "write" /\ tries = 1 /\ pending_indent > 0)
          => /\ todo # <<>>
             /\ Head(todo) \notin Marks /\ ~isspace(Head(todo))
             /\ pending_indent =
                    indent_level * indent_increment
                    - TrailingSpaces(Drop(out, Len(pre.out)))
    /\ (/\ phase = "live" /\ kind = "direct" /\ next = "sink"
        /\ last.op = "write" /\ todo = <<>>
        /\ Len(pre.run) = 1 /\ pre.asol
        /\ pre.run[1] \notin Marks /\ ~isspace(pre.run[1]))
          => out = pre.out \o SpacesOf(pre.level * pre.inc) \o pre.run

\* The first write of a run stopped because the sink refused a content byte.
ContentRefused ==
    /\ phase = "live" /\ kind = "direct" /\ next = "sink"
    /\ last.op = "write" /\ tries = 1 /\ last.owed = 0
    /\ last.refused /\ pending_indent = 0 /\ todo # <<>>

\* at_start_of_line once the bytes reported as consumed have been processed.
BeforeRefused ==
    LET t == [Cur(<<>>) EXCEPT !.next = "sink", !.asol = pre.asol,
                               !.level = pre.level, !.inc = pre.inc,
                               !.pend = 0, !.out = pre.out, !.k = NoCap]
    IN  xsputn(t, SubSeq(pre.run, 1, last.ret)).asol

\* C16: when the sink refuses a content byte, at_start_of_line keeps the
\* value it had before that byte; a refused EndOfLine, resubmitted until it
\* is consumed, reaches the sink exactly once.
C16_RefusedByteLeavesLineState ==
    /\ ContentRefused => at_start_of_line = BeforeRefused
    /\ (/\ phase = "live" /\ kind = "direct" /\ next = "sink"
        /\ last.op = "write" /\ todo = <<>>
        /\ pre.run = <<EndOfLine>> /\ ~pre.asol)
          => out = pre.out \o <<EndOfLine>>

\* The run begun at the start of a line holds one byte to emit, its last,
\* after marks and whitespace only.
FirstByteOfLine ==
    /\ pre.asol
    /\ pre.run[Len(pre.run)] \notin Marks /\ ~isspace(pre.run[Len(pre.run)])
    /\ \A i \in 1..(Len(pre.run) - 1) :
          pre.run[i] \in Marks \/ isspace(pre.run[i])

\* C17: with a sink that accepts everything, the bytes emitted before the
\* first non-whitespace byte of a line are indent_level * indent_increment
\* spaces and nothing else, whatever the product.
C17_IndentationIsSpaces ==
    (WroteAll /\ FirstByteOfLine)
        => out = pre.out \o SpacesOf(indent_level * indent_increment)
                 \o <<pre.run[Len(pre.run)]>>

\* A write call that found indentation owed and got less than that accepted.
OwedNotSettled ==
    /\ phase = "live" /\ kind = "direct" /\ next = "sink"
    /\ last.op = "write" /\ last.owed > 0
    /\ Len(out) - last.had < last.owed

\* C18: a write call that finds pending_indent > 0 offers the owed
\* indentation before it looks at the run: while the sink has not accepted
\* all of it the call returns 0, has examined no byte of the run, and leaves
\* indent_level and at_start_of_line as they were.
C18_OwedIndentationFirst ==
    OwedNotSettled
        => /\ last.ret = 0
           /\ last.seen = 0
           /\ indent_level = last.level
           /\ at_start_of_line = last.asol

C18_Witness ==
    /\ OwedNotSettled /\ Len(out) > last.had
    /\ last.ret = 0 /\ last.seen = 0 /\ pending_indent > 0

\* A step that is a write call of the direct filter which found nothing owed
\* and processed marks only.
WroteMarksOnly ==
    /\ kind = "direct" /\ phase = "live" /\ todo # <<>>
    /\ tries' # tries \/ written' # written
    /\ last'.op = "write" /\ pending_indent = 0
    /\ last'.seen = last'.ret
    /\ \A i \in 1..last'.ret : todo[i] \in Marks

\* C19: the filter starts at the start of a line; a mark changes nothing but
\* indent_level; at_start_of_line changes only when a content byte is
\* emitted, to TRUE when that byte is EndOfLine and to FALSE otherwise.
C19_LineStartStateMachine ==
    /\ []((phase = "live" /\ last = NoCall) => at_start_of_line)
    /\ [][WroteMarksOnly
            => /\ at_start_of_line' = at_start_of_line
               /\ pending_indent' = pending_indent
               /\ out' = out]_vars
    /\ [][(kind = "direct" /\ at_start_of_line' # at_start_of_line)
            => /\ Len(out') > Len(out)
               /\ at_start_of_line' = (out'[Len(out')] = EndOfLine)]_vars

\* A run begun in the middle of a line: a mark and then a byte to emit.
MarkMidLine ==
    /\ ~pre.asol /\ Len(pre.run) = 2
    /\ pre.run[1] \in Marks
    /\ pre.run[2] \notin Marks /\ ~isspace(pre.run[2])

\* A run begun in the middle of a line: the end of the line and then the
\* first byte of the next line.
NextLineStarts ==
    /\ ~pre.asol /\ Len(pre.run) = 2
    /\ pre.run[1] = EndOfLine
    /\ pre.run[2] \notin Marks /\ ~isspace(pre.run[2])

\* C20: a change of indent_level in the middle of a line, by indent() or
\* undent() or by a mark in the run, emits nothing and leaves the line as it
\* is: the sink output, at_start_of_line and pending_indent are unchanged and
\* the byte after the mark follows the line's bytes directly; the line that
\* starts afterwards is indented by the level then in force.
C20_MidLineLevelChange ==
    /\ (nest.on /\ ~nest.asol)
          => /\ out = nest.out
             /\ ~at_start_of_line
             /\ pending_indent = nest.pend
    /\ (WroteAll /\ MarkMidLine)
          => /\ out = pre.out \o <<pre.run[2]>>
             /\ ~at_start_of_line
             /\ pending_indent = 0
             /\ indent_level # pre.level \/ pre.level = 0
    /\ (WroteAll /\ NextLineStarts)
          => /\ Len(out) =
                    Len(pre.out) + 2 + indent_level * indent_increment
             /\ SubSeq(out, 1, Len(pre.out) + 1) = pre.out \o <<EndOfLine>>
             /\ out[Len(out)] = pre.run[2]
             /\ indent_level = pre.level

\* indent() was called in the middle of a line that the sink holds.
C20_Witness ==
    /\ nest.on /\ ~nest.asol /\ nest.out # <<>>
    /\ indent_level = nest.start + nest.ups /\ nest.downs = 0
    /\ out = nest.out

\* C21: the bytes the consumer has read from the chain filter are the bytes
\* the next buffer delivered, in order and none besides; the bytes read
\* ahead lie inside ibuf; end-of-input is reported to the consumer only when
\* the next buffer had nothing left to deliver.
C21_ReadSideDelivers ==
    (phase = "live" /\ kind \in {"base", "chain"})
        => /\ IsPrefix(got, delivered)
           /\ egptr <= Len(ibuf)
           /\ (rlast.op = "read" /\ rlast.ret = Eof) => rlast.left = <<>>

\* C22: no write into a chain filter ends in overflow entering itself again
\* through xsputn with nothing changed since it was entered: every write
\* returns to its caller, whatever the sink accepts.
C22_WriteTerminates == last.op = "write" => ~last.looped

\* C23: the sink output of an indentation filter never begins with EndOfLine and never holds two
\* EndOfLine bytes in a row: an EndOfLine that arrives at the start of a
\* line is whitespace and is discarded.
C23_NoBlankLines ==
    kind \in {"direct", "chain"}
        => /\ out # <<>> => out[1] # EndOfLine
           /\ \A i \in 1..(Len(out) - 1) :
                 ~(out[i] = EndOfLine /\ out[i + 1] = EndOfLine)

====
